---- MODULE Spec2Model ----
(***************************************************************************)
(* Block-lifecycle orchestrator of the CometBFT service                    *)
(* (InitChain, PrepareProposal, ProcessProposal, FinalizeBlock, Commit,    *)
(* CreateQueryContext, GetBlockRetentionHeight) over a versioned           *)
(* multi-store.                                                            *)
(*                                                                         *)
(* Store contents are sequences of write tokens <<kind, n>>:               *)
(*   <<"g", 0>>  genesis write of Middleware.InitGenesis                   *)
(*   <<"g", 1>>  genesis write of an InitChain that went on to fail its    *)
(*               validator cross-check                                     *)
(*   <<"b", h>>  block h applied by Middleware.FinalizeBlock               *)
(*   <<"x", 0>>  partial write of a Middleware.FinalizeBlock that failed   *)
(*   <<"p", 0>>  scratch write of Middleware.PrepareProposal               *)
(*   <<"q", 0>>  scratch write of Middleware.ProcessProposal               *)
(***************************************************************************)
EXTENDS Integers, Sequences, FiniteSets, TLC

VARIABLES
    alive,                \* FALSE once a handler has panicked
    genesisInitialHeight, \* InitialHeight of the genesis document (req.InitialHeight)
    minRetainBlocks,      \* s.minRetainBlocks
    initialHeight,        \* s.initialHeight
    finalizeBlockState,   \* s.finalizeBlockState
    prepareProposalState, \* s.prepareProposalState
    processProposalState, \* s.processProposalState
    working,              \* root multi-store: working (uncommitted) layer
    committed,            \* root multi-store: loadable version -> contents
    version,              \* root multi-store: last committed version
    storeInitialVersion,  \* root multi-store: initial version (0: unset)
    ret,                  \* what the last entry-point call returned
    mw,                   \* the Middleware invocation of the last call
    lastFinalize,         \* last successful FinalizeBlock since the last Commit
    finalizedSince        \* a FinalizeBlock succeeded since the last Commit (or
                          \* since InitChain while nothing is committed)

vars == <<alive, genesisInitialHeight, minRetainBlocks,
          initialHeight, finalizeBlockState, prepareProposalState,
          processProposalState, working, committed, version,
          storeInitialVersion, ret, mw, lastFinalize, finalizedSince>>

\* ------------------------------------------------------------------ bounds
MaxVersion == 2
MaxInitialHeight == 2
MaxWrites == 3
MaxRetain == 1
RetMax == 12

\* ------------------------------------------------------------- input sets
ReqHeights == 0..MaxVersion
QueryHeights == (-1)..MaxVersion
ChainIds == {"beacon", "other"}
\* a transaction is an opaque byte string; every byte string of the model is a
\* record of one shape, raw for request bytes, blk and slot for an encoded block
TxLists ==
    {<<[raw |-> "t1", blk |-> <<>>, slot |-> 0],
       [raw |-> "t2", blk |-> <<>>, slot |-> 0]>>,
     <<[raw |-> "t2", blk |-> <<>>, slot |-> 0],
       [raw |-> "t1", blk |-> <<>>, slot |-> 0]>>}
RetHeights == (0..RetMax) \cup {100}
RetBlocks == (0..RetMax) \cup {20, 50}

\* initial heights of a genesis document: unset, or a height above 1
GenesisHeights == {0, MaxInitialHeight}

chainID == "beacon"

Nil == [nil |-> TRUE]
NilHash == <<"hash", <<>>>>

\* content hash of a store layer
Hash(content) == <<"hash", content>>

\* ------------------------------------------------------------ phase state
\* A phase state owns ms, a cache branch of the root store (its buffered
\* writes), and a context: the context writes to ms ("ms") or to a cache
\* branch of the Finalize context ("finalizeBranch", buffer in cache).
resetState ==
    [ms |-> <<>>, ctx |-> "ms", cache |-> <<>>, height |-> 0]

\* what a context of the state reads
StateView(st) ==
    IF st.ctx = "ms"
    THEN working \o st.ms
    ELSE working \o finalizeBlockState.ms \o st.cache

\* a Middleware write through the state's context
CtxWrite(st, tok) ==
    IF st.ctx = "ms"
    THEN [st EXCEPT !.ms = Append(@, tok)]
    ELSE [st EXCEPT !.cache = Append(@, tok)]

\* ------------------------------------------------------------- responses
NoRet ==
    [op |-> "none", height |-> 0, err |-> "ok", appHash |-> NilHash,
     retain |-> 0, maxAge |-> 0, txs |-> <<>>, status |-> "none", prove |-> FALSE,
     opened |-> 0, content |-> <<>>]

NoMw == [op |-> "none", seen |-> <<>>, failed |-> FALSE]

LastBlockHeight == version

\* mutant: the hash of the working state with the genesis writes applied
LastCommitHash_WorkingGenesis == Hash(working \o <<<<"g", 0>>>>)

LastCommitHash == IF version = 0 THEN NilHash ELSE Hash(committed[version])

\* a node started with pruning configured (min retain blocks > 0) on an
\* empty store; the retention policy with pruning disabled is covered by
\* InitRetention
Init ==
    /\ alive = TRUE
    /\ genesisInitialHeight \in GenesisHeights
    /\ minRetainBlocks = MaxRetain
    /\ initialHeight = 0
    /\ finalizeBlockState = Nil
    /\ prepareProposalState = Nil
    /\ processProposalState = Nil
    /\ working = <<>>
    /\ committed = <<>>
    /\ version = 0
    /\ storeInitialVersion = 0
    /\ ret = NoRet
    /\ mw = NoMw
    /\ lastFinalize = Nil
    /\ finalizedSince = FALSE


\* ------------------------------------------------------- root multi-store
\* version the next Commit of the store creates
StoreNextVersion ==
    IF version = 0 /\ storeInitialVersion > 1
    THEN storeInitialVersion
    ELSE version + 1

\* CommitMultiStore().Commit(): persists the working layer as a new version
StoreCommit ==
    /\ version' = StoreNextVersion
    /\ committed' = [v \in (DOMAIN committed) \cup {StoreNextVersion} |->
                        IF v = StoreNextVersion THEN working ELSE committed[v]]
    /\ UNCHANGED <<working, storeInitialVersion>>

\* -------------------------------------------------------- retention policy
\* mutant: the plain minimum, a zero candidate not treated as absent
minNonZero_Min(x, y) == IF x < y THEN x ELSE y

minNonZero(x, y) ==
    IF x = 0 THEN y
    ELSE IF y = 0 THEN x
    ELSE IF x < y THEN x
    ELSE y

\* maxAgeNumBlocks: Evidence.MaxAgeNumBlocks of what s.paramStore.Get()
\* returns in this call (0: no evidence parameters)
GetBlockRetentionHeight(commitHeight, maxAgeNumBlocks) ==
    IF minRetainBlocks = 0 THEN 0
    ELSE IF finalizeBlockState = Nil THEN 0
    ELSE LET r0 == IF maxAgeNumBlocks > 0
                   THEN commitHeight - maxAgeNumBlocks
                   ELSE 0
             v  == commitHeight - minRetainBlocks
             r  == minNonZero(r0, v)
         IN  IF r <= 0 THEN 0 ELSE r

\* ----------------------------------------------------------- height check
\* mutant: the expected height after a commit is the committed height itself
validateFinalizeBlockHeight_Replay(reqHeight) ==
    IF reqHeight < 1 THEN "InvalidHeight"
    ELSE LET expectedHeight ==
                 IF LastBlockHeight = 0
                 THEN (IF initialHeight > 1 THEN initialHeight ELSE 1)
                 ELSE LastBlockHeight
         IN  IF reqHeight # expectedHeight THEN "HeightMismatch" ELSE "ok"

\* mutant: the initial height is ignored, the first block is always 1
validateFinalizeBlockHeight_NoInitial(reqHeight) ==
    IF reqHeight < 1 THEN "InvalidHeight"
    ELSE IF reqHeight # LastBlockHeight + 1 THEN "HeightMismatch" ELSE "ok"

validateFinalizeBlockHeight(reqHeight) ==
    IF reqHeight < 1 THEN "InvalidHeight"
    ELSE LET expectedHeight ==
                 IF LastBlockHeight = 0 /\ initialHeight > 1
                 THEN initialHeight
                 ELSE LastBlockHeight + 1
         IN  IF reqHeight # expectedHeight THEN "HeightMismatch" ELSE "ok"

\* ------------------------------------------------------------- Middleware
\* proposal built by Middleware.PrepareProposal from what its context reads
MwProposal(view, height) ==
    <<[raw |-> "blk", blk |-> view, slot |-> height],
      [raw |-> "sidecars", blk |-> <<>>, slot |-> height]>>

\* decision of Middleware.ProcessProposal: a deterministic validator that
\* rejects a state showing scratch or partial writes
MwDecision(view, height) ==
    IF \E i \in 1..Len(view) : view[i][1] \in {"p", "q", "x"}
    THEN "REJECT" ELSE "ACCEPT"

\* ------------------------------------------------------------- InitChain
GenesisValidators ==
    <<[power |-> 1, key |-> 1, type |-> "bls"],
      [power |-> 2, key |-> 2, type |-> "bls"]>>

ReqValidatorSets ==
    { <<>>,
      GenesisValidators,
      <<GenesisValidators[2], GenesisValidators[1]>>,
      <<GenesisValidators[1]>>,
      <<[power |-> 3, key |-> 1, type |-> "bls"], GenesisValidators[2]>>,
      <<[power |-> 1, key |-> 1, type |-> "ed"], GenesisValidators[2]>>,
      <<[power |-> 1, key |-> 1, type |-> "bls"],
        [power |-> 2, key |-> 3, type |-> "bls"]>> }

\* sort.Sort(ValidatorUpdates): insertion sort by public key bytes
RECURSIVE InsertByKey(_, _)
InsertByKey(sorted, v) ==
    IF sorted = <<>> THEN <<v>>
    ELSE IF v.key < Head(sorted).key THEN <<v>> \o sorted
    ELSE <<Head(sorted)>> \o InsertByKey(Tail(sorted), v)

RECURSIVE SortValidators(_)
SortValidators(vs) ==
    IF vs = <<>> THEN <<>>
    ELSE InsertByKey(SortValidators(Tail(vs)), Head(vs))

\* the validator cross-check of InitChain: its error, or "ok"
CheckValidators(reqVals, resVals) ==
    IF Len(reqVals) = 0 THEN "ok"
    ELSE IF Len(reqVals) # Len(resVals) THEN "ValidatorSetMismatch"
    ELSE LET sorted == SortValidators(reqVals)
         IN  IF \E i \in 1..Len(resVals) :
                    \/ sorted[i].power # resVals[i].power
                    \/ sorted[i].key # resVals[i].key
                    \/ sorted[i].type # resVals[i].type
             THEN "ValidatorSetMismatch"
             ELSE "ok"

\* mutant: the chain id of the request is not compared
validChainId_Unchecked(reqChainId) == TRUE

\* req.ChainId == s.chainID
validChainId(reqChainId) == reqChainId = chainID

InitChain(reqChainId, reqVals, mwFail) ==
    /\ alive
    /\ IF ~validChainId(reqChainId)
       THEN /\ ret' = [NoRet EXCEPT !.op = "InitChain", !.err = "ChainMismatch"]
            /\ mw' = NoMw
            /\ UNCHANGED <<alive, genesisInitialHeight, minRetainBlocks,
                           initialHeight, finalizeBlockState,
                           prepareProposalState, processProposalState, working,
                           committed, version, storeInitialVersion,
                           lastFinalize, finalizedSince>>
       ELSE /\ initialHeight' = IF genesisInitialHeight = 0
                                THEN 1 ELSE genesisInitialHeight
            /\ storeInitialVersion' = IF genesisInitialHeight > 1
                                      THEN genesisInitialHeight
                                      ELSE storeInitialVersion
            /\ LET st0 == resetState
                   verr == CheckValidators(reqVals, GenesisValidators)
                   st1 == IF mwFail THEN st0
                          ELSE CtxWrite(st0, <<"g", IF verr = "ok"
                                                   THEN 0 ELSE 1>>)
               IN  /\ finalizeBlockState' = st1
                   /\ mw' = [op |-> "InitGenesis", seen |-> working,
                             failed |-> mwFail]
                   /\ ret' = IF mwFail
                             THEN [NoRet EXCEPT !.op = "InitChain",
                                                !.err = "MiddlewareFailure"]
                             ELSE IF verr # "ok"
                             THEN [NoRet EXCEPT !.op = "InitChain",
                                                !.err = verr]
                             ELSE [NoRet EXCEPT !.op = "InitChain",
                                                !.appHash = LastCommitHash]
            /\ finalizedSince' = IF version = 0 THEN FALSE ELSE finalizedSince
            /\ UNCHANGED <<alive, genesisInitialHeight, minRetainBlocks,
                           prepareProposalState,
                           processProposalState, working, committed, version,
                           lastFinalize>>

\* ---------------------------------------------------- proposal phases
\* the state a proposal phase starts from: always a fresh one, whatever the
\* previous attempt (old) left in the slot
\* mutant: a state left by an earlier attempt is reused
newProposalState_Reuse(old) ==
    IF old = Nil THEN resetState
    ELSE [resetState EXCEPT !.ms = old.ms \o old.cache]

newProposalState(old) == resetState

\* getContextForProposal: the state with the context the proposal phase
\* uses; the call panics at the initial height without a Finalize state
\* mutant: the Finalize state is required at every height
getContextPanics_AnyHeight(height) == finalizeBlockState = Nil

getContextPanics(height) ==
    height = initialHeight /\ finalizeBlockState = Nil

getContextForProposal(st, height) ==
    IF height # initialHeight
    THEN st
    ELSE [st EXCEPT !.ctx = "finalizeBranch"]

\* mutant: the fallback proposal is empty
fallbackTxs_Empty(txs) == <<>>

\* the proposal returned when Middleware.PrepareProposal fails: req.Txs
fallbackTxs(txs) == txs

PrepareProposal(height, txs, mwFail) ==
    /\ alive
    /\ IF height < 1
       THEN /\ ret' = [NoRet EXCEPT !.op = "PrepareProposal",
                                    !.height = height, !.err = "InvalidHeight"]
            /\ mw' = NoMw
            /\ UNCHANGED <<alive, prepareProposalState>>
       ELSE IF getContextPanics(height)
       THEN /\ alive' = FALSE
            /\ prepareProposalState' = newProposalState(prepareProposalState)
            /\ ret' = [NoRet EXCEPT !.op = "PrepareProposal",
                                    !.height = height, !.err = "panic"]
            /\ mw' = NoMw
       ELSE LET st0 == getContextForProposal(
                           newProposalState(prepareProposalState), height)
                view == StateView(st0)
            IN  /\ prepareProposalState' = CtxWrite(st0, <<"p", 0>>)
                /\ mw' = [op |-> "PrepareProposal", seen |-> view,
                          failed |-> mwFail]
                /\ ret' = [NoRet EXCEPT
                             !.op = "PrepareProposal", !.height = height,
                             !.txs = IF mwFail THEN fallbackTxs(txs)
                                     ELSE MwProposal(view, height)]
                /\ UNCHANGED alive
    /\ UNCHANGED <<genesisInitialHeight, minRetainBlocks,
                   initialHeight, finalizeBlockState, processProposalState,
                   working, committed, version, storeInitialVersion,
                   lastFinalize, finalizedSince>>

\* mutant: every ProcessProposal recreates the Finalize state
processFinalizeState_Always(height) == resetState

\* the Finalize state ProcessProposal continues with: a fresh one above the
\* initial height
processFinalizeState(height) ==
    IF height > initialHeight THEN resetState ELSE finalizeBlockState

ProcessProposal(height, mwFail) ==
    /\ alive
    /\ IF height < 1
       THEN /\ ret' = [NoRet EXCEPT !.op = "ProcessProposal",
                                    !.height = height, !.err = "InvalidHeight"]
            /\ mw' = NoMw
            /\ UNCHANGED <<alive, processProposalState, finalizeBlockState>>
       ELSE /\ finalizeBlockState' = processFinalizeState(height)
            /\ IF getContextPanics(height)
               THEN /\ alive' = FALSE
                    /\ processProposalState' =
                           newProposalState(processProposalState)
                    /\ ret' = [NoRet EXCEPT !.op = "ProcessProposal",
                                            !.height = height, !.err = "panic"]
                    /\ mw' = NoMw
               ELSE LET st0 == getContextForProposal(
                                   newProposalState(processProposalState),
                                   height)
                        view == StateView(st0)
                    IN  /\ processProposalState' = CtxWrite(st0, <<"q", 0>>)
                        /\ mw' = [op |-> "ProcessProposal", seen |-> view,
                                  failed |-> mwFail]
                        /\ ret' = [NoRet EXCEPT
                                     !.op = "ProcessProposal",
                                     !.height = height,
                                     !.status = IF mwFail THEN "REJECT"
                                                ELSE MwDecision(view, height)]
                        /\ UNCHANGED alive
    /\ UNCHANGED <<genesisInitialHeight, minRetainBlocks,
                   initialHeight, prepareProposalState, working, committed,
                   version, storeInitialVersion, lastFinalize, finalizedSince>>


\* ---------------------------------------------------------- FinalizeBlock
\* finalizeBlockState.ms.Write(): the root store's working layer once the
\* Finalize state's buffer is flushed into it
FlushState(st) == working \o st.ms

\* mutant: the hash is taken before the flush
workingHash_BeforeWrite(st) == Hash(working)

\* workingHash: the hash of the working layer after the flush
workingHash(st) == Hash(FlushState(st))

\* mwOut: "ok", "fail" (Middleware fails before writing), "partial"
\* (Middleware fails after a write), "convert" (Middleware applied the
\* block, convertValidatorUpdate fails)
MwOutcomes == {"ok", "fail", "partial", "convert"}

\* mutant: an absent Finalize state is recovered from what the last
\* ProcessProposal left behind
recoverFinalizeState_FromProposal ==
    IF finalizeBlockState # Nil THEN finalizeBlockState
    ELSE IF processProposalState = Nil THEN resetState
    ELSE [resetState EXCEPT !.ms = processProposalState.ms]

\* the Finalize state internalFinalizeBlock works on: a fresh one when the
\* slot is empty (block replay)
recoverFinalizeState ==
    IF finalizeBlockState = Nil THEN resetState ELSE finalizeBlockState

FinalizeBlock(height, mwOut) ==
    /\ alive
    /\ LET herr == validateFinalizeBlockHeight(height)
       IN  IF herr # "ok"
           THEN /\ ret' = [NoRet EXCEPT !.op = "FinalizeBlock",
                                        !.height = height, !.err = herr]
                /\ mw' = NoMw
                /\ UNCHANGED <<finalizeBlockState, working, lastFinalize,
                               finalizedSince>>
           ELSE LET st0 == recoverFinalizeState
                    st1 == CASE mwOut = "ok"      -> CtxWrite(st0, <<"b", height>>)
                             [] mwOut = "convert" -> CtxWrite(st0, <<"b", height>>)
                             [] mwOut = "partial" -> CtxWrite(st0, <<"x", 0>>)
                             [] OTHER             -> st0
                IN  /\ Len(working) + Len(st1.ms) <= MaxWrites
                    /\ mw' = [op |-> "FinalizeBlock", seen |-> StateView(st0),
                              failed |-> mwOut \in {"fail", "partial"}]
                    /\ IF mwOut = "ok"
                       THEN /\ working' = FlushState(st1)
                            /\ finalizeBlockState' = [st1 EXCEPT !.ms = <<>>]
                            /\ ret' = [NoRet EXCEPT
                                         !.op = "FinalizeBlock",
                                         !.height = height,
                                         !.txs = <<[raw |-> "skip decoding",
                                                   blk |-> <<>>, slot |-> 0]>>,
                                         !.appHash = workingHash(st1)]
                            /\ lastFinalize' =
                                 [height |-> height,
                                  appHash |-> workingHash(st1)]
                            /\ finalizedSince' = TRUE
                       ELSE /\ finalizeBlockState' = st1
                            /\ ret' = [NoRet EXCEPT
                                         !.op = "FinalizeBlock",
                                         !.height = height,
                                         !.err = "MiddlewareFailure"]
                            /\ UNCHANGED <<working, lastFinalize, finalizedSince>>
    /\ UNCHANGED <<alive, genesisInitialHeight, minRetainBlocks,
                   initialHeight, prepareProposalState, processProposalState,
                   committed, version, storeInitialVersion>>

\* ----------------------------------------------------------------- Commit
\* mutant: a Commit that found nothing new in the working layer is skipped
commitMultiStore_SkipEmpty ==
    IF working = (IF version = 0 THEN <<>> ELSE committed[version])
    THEN UNCHANGED <<version, committed, working, storeInitialVersion>>
    ELSE StoreCommit

\* s.sm.CommitMultiStore().Commit()
commitMultiStore == StoreCommit

Commit(maxAgeNumBlocks) ==
    /\ alive
    /\ IF finalizeBlockState = Nil
       THEN /\ alive' = FALSE
            /\ ret' = [NoRet EXCEPT !.op = "Commit", !.err = "panic"]
            /\ UNCHANGED <<finalizeBlockState, working, committed, version,
                           storeInitialVersion, lastFinalize, finalizedSince>>
       ELSE /\ StoreNextVersion <= MaxVersion
            /\ LET header == finalizeBlockState
                   retainHeight ==
                       GetBlockRetentionHeight(header.height, maxAgeNumBlocks)
               IN  ret' = [NoRet EXCEPT !.op = "Commit",
                                        !.retain = retainHeight,
                                        !.maxAge = maxAgeNumBlocks]
            /\ commitMultiStore
            /\ finalizeBlockState' = Nil
            /\ lastFinalize' = Nil
            /\ finalizedSince' = FALSE
            /\ UNCHANGED alive
    /\ mw' = NoMw
    /\ UNCHANGED <<genesisInitialHeight, minRetainBlocks,
                   initialHeight, prepareProposalState, processProposalState>>

\* ----------------------------------------------------- CreateQueryContext
\* mutant: the sentinel 0 is not replaced
QueryVersion_NoSentinel(height) == height

\* the height after the sentinel 0 is replaced by the latest version: the
\* version CacheMultiStoreWithVersion is asked for
QueryVersion(height) == IF height = 0 THEN version ELSE height

\* mutant: the proof check comes before the sentinel is resolved
QueryError_ProofFirst(height, prove) ==
    LET lastBlockHeight == version
        resolved == QueryVersion(height)
    IN  IF lastBlockHeight = 0 THEN "NotReady"
        ELSE IF height > lastBlockHeight THEN "FutureHeight"
        ELSE IF height <= 1 /\ prove THEN "InvalidProofHeight"
        ELSE IF resolved \notin DOMAIN committed THEN "VersionNotFound"
        ELSE "ok"

\* mutant: the comparison with the last committed height is missing
QueryError_NoFutureCheck(height, prove) ==
    LET lastBlockHeight == version
        resolved == QueryVersion(height)
    IN  IF lastBlockHeight = 0 THEN "NotReady"
        ELSE IF resolved <= 1 /\ prove THEN "InvalidProofHeight"
        ELSE IF resolved \notin DOMAIN committed THEN "VersionNotFound"
        ELSE "ok"

\* the error of CreateQueryContext, or "ok"
QueryError(height, prove) ==
    LET lastBlockHeight == version
        resolved == QueryVersion(height)
    IN  IF lastBlockHeight = 0 THEN "NotReady"
        ELSE IF height > lastBlockHeight THEN "FutureHeight"
        ELSE IF resolved <= 1 /\ prove THEN "InvalidProofHeight"
        ELSE IF resolved \notin DOMAIN committed THEN "VersionNotFound"
        ELSE "ok"

\* mutant: the latest version is read from the store's working layer
QueryContent_Working(v) == IF v = version THEN working ELSE committed[v]

\* what the view CacheMultiStoreWithVersion(v) opens reads
QueryContent(v) == committed[v]

CreateQueryContext(height, prove) ==
    /\ alive
    /\ LET qerr == QueryError(height, prove)
           v == QueryVersion(height)
       IN  ret' = IF qerr # "ok"
                  THEN [NoRet EXCEPT !.op = "CreateQueryContext",
                                     !.height = height, !.prove = prove,
                                     !.err = qerr]
                  ELSE [NoRet EXCEPT !.op = "CreateQueryContext",
                                     !.height = height, !.prove = prove,
                                     !.opened = v,
                                     !.content = QueryContent(v)]
    /\ mw' = NoMw
    /\ UNCHANGED <<alive, genesisInitialHeight, minRetainBlocks,
                   initialHeight, finalizeBlockState, prepareProposalState,
                   processProposalState, working, committed, version,
                   storeInitialVersion, lastFinalize, finalizedSince>>

\* ------------------------------------------------------------ environment
\* the process stops and is started again: memory is lost, committed
\* versions are kept
Restart ==
    /\ alive' = TRUE
    /\ initialHeight' = 0
    /\ finalizeBlockState' = Nil
    /\ prepareProposalState' = Nil
    /\ processProposalState' = Nil
    /\ working' = IF version = 0 THEN <<>> ELSE committed[version]
    /\ storeInitialVersion' = 0
    /\ ret' = NoRet
    /\ mw' = NoMw
    /\ lastFinalize' = Nil
    /\ finalizedSince' = FALSE
    /\ UNCHANGED <<genesisInitialHeight, minRetainBlocks,
                   committed, version>>

\* the store prunes its oldest version (never the latest one)
StorePrune(v) ==
    /\ alive
    /\ v \in DOMAIN committed
    /\ v < version
    /\ \A u \in DOMAIN committed : v <= u
    /\ committed' = [u \in (DOMAIN committed) \ {v} |-> committed[u]]
    /\ UNCHANGED <<alive, genesisInitialHeight, minRetainBlocks,
                   initialHeight, finalizeBlockState, prepareProposalState,
                   processProposalState, working, version, storeInitialVersion,
                   ret, mw, lastFinalize, finalizedSince>>

\* requests of InitChain: a foreign chain id, a failing genesis
\* initializer, and every expected validator list
InitChainRequests ==
    {<<"other", <<>>, FALSE>>, <<chainID, <<>>, TRUE>>}
        \cup {<<chainID, vs, FALSE>> : vs \in ReqValidatorSets}

\* requests of PrepareProposal: the transactions matter when Middleware fails
PrepareRequests ==
    {<<h, <<>>, FALSE>> : h \in ReqHeights}
        \cup {<<h, txs, TRUE>> : h \in ReqHeights, txs \in TxLists}

Next ==
    \/ \E r \in InitChainRequests : InitChain(r[1], r[2], r[3])
    \/ \E r \in PrepareRequests : PrepareProposal(r[1], r[2], r[3])
    \/ \E h \in ReqHeights, f \in BOOLEAN : ProcessProposal(h, f)
    \/ \E h \in ReqHeights, o \in MwOutcomes : FinalizeBlock(h, o)
    \/ \E e \in {0, MaxRetain} : Commit(e)
    \/ \E h \in QueryHeights, p \in BOOLEAN : CreateQueryContext(h, p)
    \/ Restart
    \/ \E v \in 1..MaxVersion : StorePrune(v)

Spec == Init /\ [][Next]_vars

\* --------------------------------------------- retention policy on its own
\* GetBlockRetentionHeight applied to bounded inputs, with and without a
\* live Finalize state
InitRetention ==
    /\ alive = TRUE
    /\ genesisInitialHeight = 0
    /\ minRetainBlocks \in RetBlocks
    /\ initialHeight = 0
    /\ finalizeBlockState \in {Nil, resetState}
    /\ prepareProposalState = Nil
    /\ processProposalState = Nil
    /\ working = <<>>
    /\ committed = <<>>
    /\ version = 0
    /\ storeInitialVersion = 0
    /\ ret = NoRet
    /\ mw = NoMw
    /\ lastFinalize = Nil
    /\ finalizedSince = FALSE

RetentionCall(commitHeight, maxAgeNumBlocks) ==
    /\ ret' = [NoRet EXCEPT
                 !.op = "GetBlockRetentionHeight",
                 !.height = commitHeight,
                 !.maxAge = maxAgeNumBlocks,
                 !.retain = GetBlockRetentionHeight(commitHeight,
                                                    maxAgeNumBlocks)]
    /\ UNCHANGED <<alive, genesisInitialHeight, minRetainBlocks, initialHeight,
                   finalizeBlockState, prepareProposalState,
                   processProposalState, working, committed, version,
                   storeInitialVersion, mw, lastFinalize, finalizedSince>>

NextRetention ==
    \E h \in RetHeights, e \in RetBlocks : RetentionCall(h, e)

SpecRetention == InitRetention /\ [][NextRetention]_vars


\* ------------------------------------------- the engine's protocol order
\* The driving engine calls InitChain once, then per height any number of
\* PrepareProposal/ProcessProposal calls (Middleware failing or not),
\* FinalizeBlock at the expected height and Commit; Middleware's genesis
\* initializer and block application succeed.
EngineHeight == IF version = 0 THEN initialHeight ELSE version + 1

EngineInitRequests ==
    {r \in InitChainRequests :
        /\ r[1] = chainID
        /\ ~r[3]
        /\ CheckValidators(r[2], GenesisValidators) = "ok"}

EngineInitChain ==
    /\ initialHeight = 0
    /\ version = 0
    /\ \E r \in EngineInitRequests : InitChain(r[1], r[2], r[3])

EnginePropose ==
    /\ initialHeight >= 1
    /\ ~finalizedSince
    /\ EngineHeight <= MaxVersion
    /\ \/ \E r \in PrepareRequests :
             r[1] = EngineHeight /\ PrepareProposal(r[1], r[2], r[3])
       \/ \E f \in BOOLEAN : ProcessProposal(EngineHeight, f)

EngineFinalize ==
    /\ initialHeight >= 1
    /\ ~finalizedSince
    /\ EngineHeight <= MaxVersion
    /\ FinalizeBlock(EngineHeight, "ok")

EngineCommit ==
    /\ finalizedSince
    /\ \E e \in {0, MaxRetain} : Commit(e)

\* the store prunes old versions on its own while the engine runs
NextProtocol ==
    \/ EngineInitChain
    \/ EnginePropose
    \/ EngineFinalize
    \/ EngineCommit
    \/ \E v \in 1..MaxVersion : StorePrune(v)

\* the engine keeps going: it starts the chain, ends every proposal
\* round with FinalizeBlock and follows FinalizeBlock with Commit
SpecProtocol ==
    /\ Init
    /\ [][NextProtocol]_vars
    /\ WF_vars(EngineInitChain)
    /\ WF_vars(EngineFinalize)
    /\ WF_vars(EngineCommit)

\* ================================================================ claims
HeightErrors == {"InvalidHeight", "HeightMismatch"}
ProposalOps == {"PrepareProposal", "ProcessProposal"}

Range(f) == {f[i] : i \in DOMAIN f}

Min(a, b) == IF a < b THEN a ELSE b
Max(a, b) == IF a > b THEN a ELSE b

\* the step is a call of Commit
CommitStep == ret'.op = "Commit" /\ (ret' # ret \/ version' # version)

\* the step is a call of Commit that returned
CommitOkStep == CommitStep /\ ret'.err = "ok"

\* C1: once a block is committed (last committed height h >= 1), a
\* FinalizeBlock passes the height validation if and only if its height is
\* h + 1; any other height is rejected with an error and Middleware's
\* block application is not invoked.
C1_NextHeightAfterCommit ==
    /\ version >= 1 =>
          \A h \in (-1)..(MaxVersion + 2) :
             (validateFinalizeBlockHeight(h) = "ok") <=> (h = version + 1)
    /\ (ret.op = "FinalizeBlock" /\ version >= 1) =>
          /\ (ret.err \notin HeightErrors) <=> (ret.height = version + 1)
          /\ ret.err \in HeightErrors =>
                (mw = NoMw /\ ret.appHash = NilHash /\ ret.txs = <<>>)

C1_Witness ==
    /\ ret.op = "FinalizeBlock"
    /\ version >= 1
    /\ ret.height = version + 1
    /\ ret.err = "ok"
    /\ lastFinalize # Nil

\* C2 (as claimed): a call of Commit made when no FinalizeBlock has
\* succeeded since the previous Commit (or since InitChain while nothing is
\* committed) terminates the process and leaves the committed version as
\* it was; Commit returns only after a successful FinalizeBlock.
C2_CommitOnlyAfterFinalize ==
    [][(CommitStep /\ ~finalizedSince) =>
          (ret'.err = "panic" /\ ~alive' /\ version' = version)]_vars

\* the first height FinalizeBlock expects of a chain nothing is committed of
ExpectedFirstHeight == IF initialHeight = 0 THEN 1 ELSE initialHeight

\* C3: with nothing committed FinalizeBlock accepts exactly the working
\* initial height (1 when the genesis document gives 0 and 1 when InitChain
\* was never called); with a committed block it accepts exactly the last
\* committed height + 1; a height below 1 fails with InvalidHeight, not
\* with the height mismatch.
C3_ExpectedHeight ==
    /\ initialHeight \in
          {0, IF genesisInitialHeight = 0 THEN 1 ELSE genesisInitialHeight}
    /\ ret.op = "FinalizeBlock" =>
          /\ (ret.height < 1) <=> (ret.err = "InvalidHeight")
          /\ version = 0 =>
                ((ret.err \notin HeightErrors) <=>
                     (ret.height = ExpectedFirstHeight))
          /\ version > 0 =>
                ((ret.err \notin HeightErrors) <=> (ret.height = version + 1))

C3_Witness ==
    /\ ret.op = "FinalizeBlock"
    /\ version = 0
    /\ initialHeight = MaxInitialHeight
    /\ ret.height = initialHeight
    /\ ret.err = "ok"

C5_VersionAdvancesByOne ==
    [][/\ version' >= version
       /\ version' # version =>
             /\ ret'.op = "Commit"
             /\ ret'.err = "ok"
             /\ version' = IF version = 0 /\ initialHeight > 1
                           THEN initialHeight
                           ELSE version + 1
       /\ CommitOkStep => version' > version]_vars

C5_Witness ==
    /\ ret.op = "Commit"
    /\ ret.err = "ok"
    /\ genesisInitialHeight > 1
    /\ version = genesisInitialHeight
    /\ DOMAIN committed = {version}
    /\ <<"b", version>> \in Range(committed[version])

NoScratch(view) ==
    \A i \in 1..Len(view) : view[i][1] \notin {"p", "q"}

\* C6: a proposal call that repeats the previous call (same entry point,
\* same height, same Middleware outcome) hands Middleware the same state
\* and returns the same result; no Middleware write of a proposal phase is
\* ever visible to a proposal call.
C6_RetryAsSingleCall ==
    [][/\ mw'.op \in ProposalOps => NoScratch(mw'.seen)
       /\ (/\ ret.op \in ProposalOps
           /\ ret'.op = ret.op
           /\ ret'.height = ret.height
           /\ mw.op = ret.op
           /\ mw'.op = ret.op
           /\ mw'.failed = mw.failed) =>
             /\ mw'.seen = mw.seen
             /\ (~mw.failed \/ ret.op = "ProcessProposal") => ret' = ret]_vars

C6_Witness ==
    /\ ret.op = "ProcessProposal"
    /\ mw.op = "ProcessProposal"
    /\ ret.height = initialHeight
    /\ processProposalState # Nil
    /\ processProposalState.cache = <<<<"q", 0>>>>
    /\ prepareProposalState # Nil
    /\ prepareProposalState.cache = <<<<"p", 0>>>>
    /\ mw.seen = <<<<"g", 0>>>>

\* the retention height as the policy states it
RefRetention(commitHeight, evidenceMaxAgeBlocks, minRetain) ==
    IF minRetain = 0 THEN 0
    ELSE LET a == IF evidenceMaxAgeBlocks > 0
                  THEN commitHeight - evidenceMaxAgeBlocks ELSE 0
             b == commitHeight - minRetain
             c == IF a = 0 THEN b ELSE IF b = 0 THEN a ELSE Min(a, b)
         IN  IF c > 0 THEN c ELSE 0

RetentionReturned == ret.op = "GetBlockRetentionHeight"

\* C7: with a live Finalize state GetBlockRetentionHeight returns what the
\* policy states for every input, in particular 0 for (100, 50, 0), 80 for
\* (100, 0, 20), 50 for (100, 50, 20) and 0 for (10, 50, 20), the inputs
\* being (commit height, evidence max age, min retain blocks).
C7_RetentionIsPolicy ==
    (RetentionReturned /\ finalizeBlockState # Nil) =>
       /\ ret.retain = RefRetention(ret.height, ret.maxAge, minRetainBlocks)
       /\ (ret.height = 100 /\ ret.maxAge = 50 /\ minRetainBlocks = 0) =>
             ret.retain = 0
       /\ (ret.height = 100 /\ ret.maxAge = 0 /\ minRetainBlocks = 20) =>
             ret.retain = 80
       /\ (ret.height = 100 /\ ret.maxAge = 50 /\ minRetainBlocks = 20) =>
             ret.retain = 50
       /\ (ret.height = 10 /\ ret.maxAge = 50 /\ minRetainBlocks = 20) =>
             ret.retain = 0

C7_Witness ==
    /\ RetentionReturned
    /\ finalizeBlockState # Nil
    /\ ret.height = 100
    /\ ret.maxAge = 50
    /\ minRetainBlocks = 20
    /\ ret.retain = 50

\* C8 (as claimed): with min retain blocks > 0 the retention height r is
\* within both windows: 0 <= r <= max(0, commit height - min retain
\* blocks) and, with an evidence max age > 0, r <= max(0, commit height -
\* evidence max age).
C8_RetentionWithinWindows ==
    (RetentionReturned /\ minRetainBlocks > 0) =>
       /\ 0 <= ret.retain
       /\ ret.retain <= Max(0, ret.height - minRetainBlocks)
       /\ ret.maxAge > 0 => ret.retain <= Max(0, ret.height - ret.maxAge)

QueryReturned == ret.op = "CreateQueryContext"

\* C9 (as claimed): CreateQueryContext with a proof requested fails with
\* the invalid-proof-height error for every requested height <= 1, the
\* sentinel 0 included, whatever the last committed height, and opens no
\* store view.
C9_ProofHeightAlwaysRejected ==
    (QueryReturned /\ ret.prove /\ ret.height <= 1) =>
       (ret.err = "InvalidProofHeight" /\ ret.opened = 0)

\* C9 (amended): with a proof requested and a last committed height
\* L >= 1, CreateQueryContext fails with the invalid-proof-height error and
\* opens no store view for the requested height 1, for every negative
\* height and, when L = 1, for the sentinel 0; with L >= 2 the sentinel 0
\* resolves to L and a view of version L is opened; with nothing committed
\* the call fails with NotReady.
C9_ProofHeightResolved ==
    (QueryReturned /\ ret.prove /\ ret.height <= 1) =>
       IF version = 0
       THEN ret.err = "NotReady" /\ ret.opened = 0
       ELSE IF ret.height = 0 /\ version >= 2
       THEN ret.err = "ok" /\ ret.opened = version
       ELSE ret.err = "InvalidProofHeight" /\ ret.opened = 0

C9_Witness ==
    /\ QueryReturned
    /\ ret.prove
    /\ ret.height = 0
    /\ version = 1
    /\ ret.err = "InvalidProofHeight"

\* C10: CreateQueryContext(0, false) with a last committed height L >= 1
\* opens the store view of version L.
C10_SentinelIsLatest ==
    (QueryReturned /\ ret.height = 0 /\ ~ret.prove /\ version >= 1) =>
       /\ ret.err = "ok"
       /\ ret.opened = version
       /\ ret.content = committed[version]

C10_Witness ==
    /\ QueryReturned
    /\ ret.height = 0
    /\ ~ret.prove
    /\ version = MaxVersion
    /\ Cardinality(DOMAIN committed) >= 2
    /\ ret.opened = version

\* the step is a call of CreateQueryContext
QueryStep == ret'.op = "CreateQueryContext" /\ committed' = committed

\* C11 (as claimed): CreateQueryContext fails with NotReady for every height
\* when nothing is committed, with FutureHeight whenever the requested
\* height exceeds the last committed height L >= 1, and with
\* VersionNotFound whenever the resolved version is not loadable; a call
\* that succeeds opens a loadable version h with 1 <= h <= L.
C11_QueryErrorsAsClaimed ==
    [][QueryStep =>
          /\ version = 0 => ret'.err = "NotReady"
          /\ (version >= 1 /\ ret'.height > version) =>
                ret'.err = "FutureHeight"
          /\ (/\ version >= 1
              /\ ret'.height <= version
              /\ QueryVersion(ret'.height) \notin DOMAIN committed) =>
                ret'.err = "VersionNotFound"
          /\ ret'.err = "ok" =>
                /\ ret'.opened \in DOMAIN committed
                /\ 1 <= ret'.opened /\ ret'.opened <= version]_vars

\* C11 (amended): CreateQueryContext never opens a view of a height that
\* is not a committed version: it fails with NotReady for every height when
\* nothing is committed, with FutureHeight whenever the requested height
\* exceeds the last committed height L >= 1, and it fails whenever the
\* resolved version is not loadable, with VersionNotFound unless a proof
\* is requested for a resolved height <= 1, which fails with the
\* invalid-proof-height error first; a call that succeeds opens a
\* loadable version h with 1 <= h <= L and returns its content.
C11_QueryNeverOpensUncommitted ==
    [][QueryStep =>
          /\ version = 0 => ret'.err = "NotReady"
          /\ (version >= 1 /\ ret'.height > version) =>
                ret'.err = "FutureHeight"
          /\ (/\ version >= 1
              /\ ret'.height <= version
              /\ QueryVersion(ret'.height) \notin DOMAIN committed) =>
                /\ ret'.opened = 0
                /\ ret'.err = IF ret'.prove /\ QueryVersion(ret'.height) <= 1
                              THEN "InvalidProofHeight"
                              ELSE "VersionNotFound"
          /\ ret'.err # "ok" => (ret'.opened = 0 /\ ret'.content = <<>>)
          /\ ret'.err = "ok" =>
                /\ ret'.opened \in DOMAIN committed
                /\ 1 <= ret'.opened /\ ret'.opened <= version
                /\ ret'.opened = QueryVersion(ret'.height)
                /\ ret'.content = committed[ret'.opened]]_vars

C11_Witness ==
    /\ QueryReturned
    /\ ret.err = "VersionNotFound"
    /\ ret.height = 1
    /\ version = MaxVersion
    /\ 1 \notin DOMAIN committed

\* the orchestrator and the store are as before the step
OrchestratorUnchanged ==
    UNCHANGED <<initialHeight, storeInitialVersion, finalizeBlockState,
                prepareProposalState, processProposalState, working,
                committed, version>>

\* C12: an InitChain whose chain id differs from the configured one fails
\* with the chain-mismatch error, without invoking Middleware's genesis
\* initializer, and leaves the working initial height, the store's initial
\* version, the three phase slots, the working layer and the committed
\* versions as they were; no other InitChain fails with that error.
C12_ChainMismatchChangesNothing ==
    [][/\ ret'.op = "InitChain" =>
             \A r \in InitChainRequests :
                InitChain(r[1], r[2], r[3]) =>
                   IF r[1] # chainID
                   THEN /\ ret'.err = "ChainMismatch"
                        /\ ret'.appHash = NilHash
                        /\ mw' = NoMw
                        /\ OrchestratorUnchanged
                   ELSE /\ ret'.err # "ChainMismatch"
                        /\ mw'.op = "InitGenesis"
       /\ (/\ ret'.op = "InitChain"
           /\ ret'.err = "ChainMismatch"
           /\ (ret.op # "InitChain" \/ ret.err # "ChainMismatch")) =>
             OrchestratorUnchanged]_vars

C12_Witness ==
    /\ ret.op = "InitChain"
    /\ ret.err = "ChainMismatch"
    /\ mw = NoMw
    /\ initialHeight = MaxInitialHeight
    /\ storeInitialVersion = MaxInitialHeight
    /\ finalizeBlockState # Nil
    /\ finalizeBlockState.ms = <<<<"g", 0>>>>
    /\ version = 0

\* a genesis write of an InitChain that failed its validator cross-check
FailedGenesisWrite == <<"g", 1>>

\* C13 (as claimed): an InitChain whose non-empty expected validator list
\* differs from Middleware's genesis output (in length, or after sorting in
\* power, key bytes or key type at some position) fails and leaves the
\* committed versions as they were, and no genesis write of such a failed
\* InitChain is ever part of a committed version.
C13_FailedGenesisNeverCommitted ==
    [][/\ ret'.op = "InitChain" =>
             \A r \in InitChainRequests :
                (/\ r[1] = chainID
                 /\ ~r[3]
                 /\ Len(r[2]) > 0
                 /\ SortValidators(r[2]) # GenesisValidators
                 /\ InitChain(r[1], r[2], r[3])) =>
                   /\ ret'.err = "ValidatorSetMismatch"
                   /\ ret'.appHash = NilHash
                   /\ committed' = committed
                   /\ version' = version
       /\ \A v \in DOMAIN committed' :
             FailedGenesisWrite \notin Range(committed'[v])]_vars

\* C14: a Middleware failure in a proposal phase is never a call failure:
\* a PrepareProposal (height >= 1) whose Middleware call fails returns a
\* response with exactly the transactions of the request, in their order,
\* and a ProcessProposal whose Middleware call fails returns a response
\* with status reject; a proposal call only fails for a height below 1.
C14_ProposalFailureDegrades ==
    [][ret'.op \in ProposalOps =>
          /\ (ret'.err = "InvalidHeight") <=> (ret'.height < 1)
          /\ ret'.err \in {"ok", "InvalidHeight", "panic"}
          /\ mw'.op \in ProposalOps =>
                (mw'.op = ret'.op /\ ret'.err = "ok" /\ ret'.height >= 1)
          /\ \A r \in PrepareRequests :
                (/\ mw'.op = "PrepareProposal"
                 /\ mw'.failed
                 /\ r[3]
                 /\ r[1] = ret'.height
                 /\ PrepareProposal(r[1], r[2], r[3])) =>
                   ret'.txs = r[2]
          /\ (mw'.op = "ProcessProposal" /\ mw'.failed) =>
                ret'.status = "REJECT"]_vars

C14_Witness ==
    /\ ret.op = "PrepareProposal"
    /\ mw.op = "PrepareProposal"
    /\ mw.failed
    /\ ret.err = "ok"
    /\ ret.height = MaxVersion
    /\ ret.txs = <<[raw |-> "t2", blk |-> <<>>, slot |-> 0],
                   [raw |-> "t1", blk |-> <<>>, slot |-> 0]>>
    /\ version = MaxVersion - 1

\* the writes buffered in a phase slot
SlotWrites(st) == IF st = Nil THEN <<>> ELSE st.ms

\* C15 (as claimed): a FinalizeBlock that fails (height check or
\* Middleware failure) returns no response and no app hash, leaves the
\* working layer of the root store unchanged and leaves none of the
\* writes of the failed attempt in the Finalize state, so that a
\* FinalizeBlock retried at the same height hands Middleware the state the
\* first attempt started from.
C15_FailedFinalizeLeavesNothing ==
    [][(ret'.op = "FinalizeBlock" /\ ret'.err # "ok") =>
          /\ ret'.appHash = NilHash
          /\ ret'.txs = <<>>
          /\ working' = working
          /\ SlotWrites(finalizeBlockState') = SlotWrites(finalizeBlockState)
          /\ (/\ ret.op = "FinalizeBlock"
              /\ ret.err = "MiddlewareFailure"
              /\ ret'.height = ret.height
              /\ mw.op = "FinalizeBlock"
              /\ mw'.op = "FinalizeBlock") =>
                mw'.seen = mw.seen]_vars

\* how often block h was applied to the state the Finalize context shows
TimesApplied(h) ==
    LET view == working \o SlotWrites(finalizeBlockState)
    IN  Cardinality({i \in DOMAIN view : view[i] = <<"b", h>>})

\* C16 (as claimed): no block is applied twice: Middleware's block
\* application never succeeds on top of a state the same block was already
\* applied to, in particular not in a second FinalizeBlock(h) made after a
\* successful FinalizeBlock(h) and before the Commit.
C16_NoBlockAppliedTwice ==
    \A h \in 1..MaxVersion : TimesApplied(h) <= 1

\* C17: a ProcessProposal replaces the Finalize state by a fresh one if
\* its height is above the working initial height and leaves it as it is
\* otherwise; a PrepareProposal leaves it as it is at every height; so
\* the Finalize state InitChain produced, its genesis writes included,
\* survives every proposal call at the initial height, whatever
\* Middleware writes to the proposal contexts. No proposal call touches
\* the working layer.
C17_ProposalFinalizeFrame ==
    [][ret'.op \in ProposalOps =>
          /\ working' = working
          /\ initialHeight' = initialHeight
          /\ ret'.op = "PrepareProposal" =>
                finalizeBlockState' = finalizeBlockState
          /\ (ret'.op = "ProcessProposal" /\ ret'.height > initialHeight) =>
                finalizeBlockState' = resetState
          /\ (ret'.op = "ProcessProposal" /\ ret'.height <= initialHeight) =>
                finalizeBlockState' = finalizeBlockState]_vars

C17_Witness ==
    /\ ret.op = "ProcessProposal"
    /\ ret.status = "ACCEPT"
    /\ initialHeight = MaxInitialHeight
    /\ ret.height = initialHeight
    /\ finalizeBlockState # Nil
    /\ finalizeBlockState.ms = <<<<"g", 0>>>>
    /\ processProposalState # Nil
    /\ processProposalState.cache = <<<<"q", 0>>>>

\* the content of the last committed version
LastCommitted == IF version = 0 THEN <<>> ELSE committed[version]

\* C18 (as claimed): the context PrepareProposal and ProcessProposal hand
\* to Middleware is, at the initial height, a branch of the retained
\* Finalize context (it shows what that context shows, genesis writes
\* included) and, at every other height, shows exactly the last committed
\* version: no uncommitted write of a Finalize, Prepare or Process phase.
C18_ProposalContextIsCommitted ==
    mw.op \in ProposalOps =>
       IF ret.height = initialHeight
       THEN /\ finalizeBlockState # Nil
            /\ mw.seen = working \o finalizeBlockState.ms
       ELSE mw.seen = LastCommitted

\* C19: with an empty Finalize slot (after a Commit or a restart) the
\* working layer is the last committed version; with a committed height
\* L >= 1, a FinalizeBlock(L + 1) whose Middleware call succeeds then works
\* on a fresh Finalize state showing exactly that version, applies the
\* block and returns its app hash, no ProcessProposal being needed, and
\* the Commit that follows returns and creates version L + 1 with the
\* finalized content.
C19_ReplayRecovery ==
    [][/\ finalizeBlockState = Nil => working = LastCommitted
       /\ (/\ finalizeBlockState = Nil
           /\ version >= 1
           /\ ret'.op = "FinalizeBlock"
           /\ FinalizeBlock(version + 1, "ok")) =>
             /\ ret'.err = "ok"
             /\ mw'.seen = LastCommitted
             /\ working' = LastCommitted \o <<<<"b", version + 1>>>>
             /\ ret'.appHash = Hash(working')
             /\ finalizeBlockState' # Nil
             /\ lastFinalize'.height = version + 1
       /\ (/\ CommitStep
           /\ finalizeBlockState # Nil
           /\ lastFinalize # Nil
           /\ version >= 1) =>
             /\ ret'.err = "ok"
             /\ version' = version + 1
             /\ version' = lastFinalize.height
             /\ committed'[version'] = working
             /\ finalizeBlockState' = Nil]_vars

C19_Witness ==
    /\ ret.op = "Commit"
    /\ ret.err = "ok"
    /\ initialHeight = 0
    /\ processProposalState = Nil
    /\ prepareProposalState = Nil
    /\ version = MaxVersion
    /\ <<"b", version>> \in Range(committed[version])
    /\ <<"b", version - 1>> \in Range(committed[version])

\* C20 (as claimed): the retention height a Commit returns is the
\* retention policy evaluated at the height this Commit has just
\* committed, with the evidence max age read in this Commit and the
\* configured min retain blocks.
C20_CommitRetentionAtCommittedHeight ==
    [][(CommitOkStep /\ finalizedSince /\ lastFinalize # Nil) =>
          /\ version' = lastFinalize.height
          /\ ret'.retain = RefRetention(lastFinalize.height, ret'.maxAge,
                                        minRetainBlocks)]_vars

GenesisWrite == <<"g", 0>>

C22_QueryReadsCommittedOnly ==
    [][QueryStep =>
          /\ UNCHANGED <<alive, minRetainBlocks, initialHeight,
                         finalizeBlockState, prepareProposalState,
                         processProposalState, working, committed, version,
                         storeInitialVersion>>
          /\ ret'.err = "ok" =>
                /\ ret'.opened \in DOMAIN committed
                /\ ret'.content = committed[ret'.opened]
                /\ (ret'.opened = version /\ working # LastCommitted) =>
                      ret'.content # working]_vars

C22_Witness ==
    /\ QueryReturned
    /\ ret.err = "ok"
    /\ ret.opened = version
    /\ lastFinalize # Nil
    /\ working # committed[version]
    /\ ret.content = committed[version]
    /\ processProposalState # Nil
    /\ processProposalState.ms # <<>>

\* C23 (as claimed): only Commit can terminate the process: a
\* PrepareProposal or ProcessProposal with a height >= 1 returns a
\* response in every reachable state, also for the initial height after
\* the first Commit or after a restart, and FinalizeBlock never panics.
C23_OnlyCommitPanics ==
    /\ ~alive => ret.op = "Commit"
    /\ ret.err = "panic" => ret.op = "Commit"
    /\ (ret.op \in ProposalOps /\ ret.height >= 1) => ret.err = "ok"

\* the first height of the chain the genesis document starts
GenesisFirstHeight ==
    IF genesisInitialHeight = 0 THEN 1 ELSE genesisInitialHeight

\* C24: under the protocol order (InitChain, then per height proposal
\* calls with any Middleware failures, FinalizeBlock at the expected
\* height, Commit; block application succeeding) no call terminates the
\* process, every FinalizeBlock and Commit succeeds, FinalizeBlock always
\* accepts some height, and with a fair engine every height from the
\* initial height up to the bound is eventually committed.
C24_ProtocolProgress ==
    /\ [](alive /\ ret.err = "ok")
    /\ [](\E h \in 1..(MaxVersion + 1) :
             validateFinalizeBlockHeight(h) = "ok")
    /\ [](version # 0 => version >= GenesisFirstHeight)
    /\ \A h \in 1..MaxVersion :
          <>(h < GenesisFirstHeight \/ (version = h /\ h \in DOMAIN committed))

C24_Witness ==
    /\ ret.op = "Commit"
    /\ ret.err = "ok"
    /\ genesisInitialHeight = 0
    /\ version = MaxVersion
    /\ DOMAIN committed = 1..MaxVersion
    /\ prepareProposalState # Nil
    /\ processProposalState # Nil
    /\ <<"b", MaxVersion>> \in Range(committed[version])

====
